---- MODULE Spec2Model ----
(***************************************************************************)
(* A model of tools/mojo_bulk_replace.py: a bulk literal search/replace    *)
(* helper driven by a TOML config.  main() parses the command line, loads  *)
(* the config, walks the configured directories, runs process_file on each *)
(* file whose extension is included, reports, writes in apply mode, and    *)
(* prints a summary.                                                       *)
(*                                                                         *)
(* Text (file contents, search and replace strings, file names) is a       *)
(* sequence of one-character strings.  Rule names and directory names are  *)
(* never inspected character by character and stay TLA+ strings.           *)
(***************************************************************************)
EXTENDS Integers, Sequences, FiniteSets, TLC

VARIABLES
    pc,            \* position of the control thread
    caller,        \* who called process_file: "main" (line 112) or "direct"
    dry_run,       \* args.dry_run
    apply,         \* args.apply
    config,        \* the parsed TOML document behind --config
    settings,      \* Settings returned by load_config
    replacements,  \* List[Replacement] returned by load_config
    disk,          \* file path -> text on disk
    fnames,        \* file path -> file name (last path component)
    dir_i,         \* index of rel_dir in settings.directories
    walk,          \* files os.walk still has to yield for the current base
    cur,           \* fpath
    text,          \* process_file: text
    new_text,      \* process_file: new_text
    counts,        \* process_file: counts
    pf_i,          \* process_file: index of repl in replacements
    total_counts,  \* main: total_counts
    summary,       \* the printed summary (rule name -> total), once printed
    exit_code,     \* the exit status of the process, -1 while it runs
    io,            \* history: the file-system operations performed so far
    visits,        \* history: one record per file handed to process_file
    disk0          \* history: the disk at the start of the run

vars == <<pc, caller, dry_run, apply, config, settings, replacements, disk,
          fnames, dir_i, walk, cur, text, new_text, counts, pf_i,
          total_counts, summary, exit_code, io, visits, disk0>>

(***************************************************************************)
(* Bounds of the checked instances.                                        *)
(***************************************************************************)
MaxTextLen == 2     \* longest file text of a full run
MaxRules == 2       \* longest [[replacements]] list
MaxDirs == 2        \* longest settings.directories list
MaxNameLen == 3     \* longest enumerated file name
MaxPFTextLen == 4   \* longest text handed to process_file alone
MaxPatLen == 2      \* longest search / replace string handed to process_file alone

(***************************************************************************)
(* Python's str operations, as process_file and main use them.             *)
(***************************************************************************)
\* sub occurs in s starting at position i (1-based)
MatchAt(s, sub, i) ==
    /\ i >= 1
    /\ i + Len(sub) - 1 <= Len(s)
    /\ SubSeq(s, i, i + Len(sub) - 1) = sub

RECURSIVE CountFrom(_, _, _)
CountFrom(s, sub, i) ==
    IF i + Len(sub) - 1 > Len(s) THEN 0
    ELSE IF MatchAt(s, sub, i) THEN 1 + CountFrom(s, sub, i + Len(sub))
    ELSE CountFrom(s, sub, i + 1)

\* s.count(sub): the non-overlapping occurrences found scanning left to right;
\* the empty string is found before every character and at the end
StrCount(s, sub) ==
    IF sub = <<>> THEN Len(s) + 1 ELSE CountFrom(s, sub, 1)

RECURSIVE ReplaceFrom(_, _, _, _)
ReplaceFrom(s, sub, rep, i) ==
    IF i > Len(s) THEN <<>>
    ELSE IF MatchAt(s, sub, i) THEN rep \o ReplaceFrom(s, sub, rep, i + Len(sub))
    ELSE <<s[i]>> \o ReplaceFrom(s, sub, rep, i + 1)

RECURSIVE Interleave(_, _, _)
Interleave(s, rep, i) ==
    IF i > Len(s) THEN rep
    ELSE rep \o <<s[i]>> \o Interleave(s, rep, i + 1)

\* s.replace(sub, rep): every occurrence s.count(sub) counts is replaced; an
\* empty sub puts rep before every character and at the end
StrReplace(s, sub, rep) ==
    IF sub = <<>> THEN Interleave(s, rep, 1) ELSE ReplaceFrom(s, sub, rep, 1)

RECURSIVE LStrip(_, _)
\* s.lstrip(ch)
LStrip(s, ch) ==
    IF s # <<>> /\ Head(s) = ch THEN LStrip(Tail(s), ch) ELSE s

\* s.rfind(ch), 1-based, 0 when ch does not occur
RFind(s, ch) ==
    LET hits == {i \in 1..Len(s) : s[i] = ch}
    IN  IF hits = {} THEN 0 ELSE CHOOSE i \in hits : \A j \in hits : j <= i

\* PathSuffix with a leading '.' taken for the start of a suffix
PathSuffix_LeadingDot(fname) ==
    LET i == RFind(fname, ".")
    IN  IF 1 <= i /\ i < Len(fname) THEN SubSeq(fname, i, Len(fname)) ELSE <<>>

\* Path(fname).suffix: the last '.' and what follows it, when that '.' is
\* neither the first nor the last character of the name; otherwise empty
PathSuffix(fname) ==
    LET i == RFind(fname, ".")
    IN  IF 1 < i /\ i < Len(fname) THEN SubSeq(fname, i, Len(fname)) ELSE <<>>

\* ext = Path(fname).suffix.lstrip(".")
Ext(fname) == LStrip(PathSuffix(fname), ".")

\* x in lst, for a Python list
InList(x, lst) == \E i \in 1..Len(lst) : lst[i] = x

(***************************************************************************)
(* load_config.  A TOML table is a function whose domain is the set of     *)
(* keys present; tbl.get(key, default) is Get.                             *)
(***************************************************************************)
EmptyTable == [k \in {} |-> <<>>]

Get(tbl, key, default) == IF key \in DOMAIN tbl THEN tbl[key] ELSE default

DefaultExtensions == << <<"m", "o", "j", "o">> >>

LoadSettings(data) ==
    LET settings_tbl == Get(data, "settings", EmptyTable)
    IN  [include_extensions |-> Get(settings_tbl, "include_extensions", DefaultExtensions),
         directories |-> Get(settings_tbl, "directories", <<>>)]

LoadReplacement(item) ==
    [name |-> Get(item, "name", "unnamed"),
     search |-> Get(item, "search", <<>>),
     replace |-> Get(item, "replace", <<>>)]

LoadReplacements(data) ==
    LET items == Get(data, "replacements", <<>>)
    IN  [i \in 1..Len(items) |-> LoadReplacement(items[i])]

(***************************************************************************)
(* The file system under the current working directory: directory "d"      *)
(* holds file "d/f1" and the sub-directory "d/s", which holds "d/s/f2".    *)
(* No other directory exists.                                              *)
(***************************************************************************)
Files == {"d/f1", "d/s/f2"}

\* (repo_root / rel_dir).is_dir()
IsDir(rel_dir) == rel_dir \in {"d", "d/s"}

\* the files os.walk(base) yields, top-down
OsWalk(rel_dir) ==
    IF rel_dir = "d" THEN <<"d/f1", "d/s/f2">>
    ELSE IF rel_dir = "d/s" THEN <<"d/s/f2">>
    ELSE <<>>

(***************************************************************************)
(* process_file (lines 70-79), one action per statement group.             *)
(***************************************************************************)
EmptyCounts == [n \in {} |-> 0]

\* Before counting in the text as read, not in the text so far
Before_OnOriginal(txt, repl) == StrCount(text, repl.search)

\* before = new_text.count(repl.search)
Before(txt, repl) == StrCount(txt, repl.search)

\* StepText replacing the first occurrence only
StepText_FirstOnly(txt, repl) ==
    IF Before(txt, repl) # 0
    THEN LET i == CHOOSE k \in 1..(Len(txt) + 1) :
                    /\ MatchAt(txt, repl.search, k)
                    /\ \A j \in 1..(k - 1) : ~MatchAt(txt, repl.search, j)
         IN  SubSeq(txt, 1, i - 1) \o repl.replace
                \o SubSeq(txt, i + Len(repl.search), Len(txt))
    ELSE txt

\* if before: new_text = new_text.replace(repl.search, repl.replace)
StepText(txt, repl) ==
    IF Before(txt, repl) # 0 THEN StrReplace(txt, repl.search, repl.replace) ELSE txt

\* counts[repl.name] = before
StepCounts(cnts, repl, before) == (repl.name :> before) @@ cnts

\* text = path.read_text(); counts = {}; new_text = text
PFRead ==
    /\ pc = "pf_read"
    /\ text' = disk[cur]
    /\ new_text' = disk[cur]
    /\ counts' = EmptyCounts
    /\ pf_i' = 1
    /\ io' = Append(io, [op |-> "read", path |-> cur])
    /\ pc' = "pf_loop"
    /\ UNCHANGED <<caller, dry_run, apply, config, settings, replacements, disk,
                   fnames, dir_i, walk, cur, total_counts, summary, exit_code,
                   visits, disk0>>

\* one pass of: for repl in replacements
PFIter ==
    /\ pc = "pf_loop"
    /\ pf_i <= Len(replacements)
    /\ LET repl == replacements[pf_i]
       IN  /\ new_text' = StepText(new_text, repl)
           /\ counts' = StepCounts(counts, repl, Before(new_text, repl))
    /\ pf_i' = pf_i + 1
    /\ UNCHANGED <<pc, caller, dry_run, apply, config, settings, replacements,
                   disk, fnames, dir_i, walk, cur, text, total_counts, summary,
                   exit_code, io, visits, disk0>>

\* return new_text, counts
PFReturn ==
    /\ pc = "pf_loop"
    /\ pf_i > Len(replacements)
    /\ pc' = IF caller = "main" THEN "report" ELSE "pf_done"
    /\ UNCHANGED <<caller, dry_run, apply, config, settings, replacements, disk,
                   fnames, dir_i, walk, cur, text, new_text, counts, pf_i,
                   total_counts, summary, exit_code, io, visits, disk0>>

(***************************************************************************)
(* main (lines 82-126).                                                    *)
(***************************************************************************)
\* if not args.dry_run and not args.apply
NoModeGiven(dr, ap) == ~dr /\ ~ap

\* parser.error(...): usage message, exit status 2
ParseArgsError ==
    /\ pc = "parse_args"
    /\ NoModeGiven(dry_run, apply)
    /\ pc' = "exit"
    /\ exit_code' = 2
    /\ UNCHANGED <<caller, dry_run, apply, config, settings, replacements, disk,
                   fnames, dir_i, walk, cur, text, new_text, counts, pf_i,
                   total_counts, summary, io, visits, disk0>>

ParseArgsOk ==
    /\ pc = "parse_args"
    /\ ~NoModeGiven(dry_run, apply)
    /\ pc' = "load_config"
    /\ UNCHANGED <<caller, dry_run, apply, config, settings, replacements, disk,
                   fnames, dir_i, walk, cur, text, new_text, counts, pf_i,
                   total_counts, summary, exit_code, io, visits, disk0>>

\* settings, replacements = load_config(args.config)
LoadConfig ==
    /\ pc = "load_config"
    /\ io' = Append(io, [op |-> "read_config", path |-> "config"])
    /\ settings' = LoadSettings(config)
    /\ replacements' = LoadReplacements(config)
    /\ pc' = "check_dirs"
    /\ UNCHANGED <<caller, dry_run, apply, config, disk, fnames, dir_i, walk, cur,
                   text, new_text, counts, pf_i, total_counts, summary, exit_code,
                   visits, disk0>>

\* raise SystemExit("No directories specified ..."): exit status 1
NoDirectories ==
    /\ pc = "check_dirs"
    /\ settings.directories = <<>>
    /\ pc' = "exit"
    /\ exit_code' = 1
    /\ UNCHANGED <<caller, dry_run, apply, config, settings, replacements, disk,
                   fnames, dir_i, walk, cur, text, new_text, counts, pf_i,
                   total_counts, summary, io, visits, disk0>>

\* total_counts = {r.name: 0 for r in replacements}
InitTotals(repls) ==
    [n \in {repls[i].name : i \in 1..Len(repls)} |-> 0]

StartLoop ==
    /\ pc = "check_dirs"
    /\ settings.directories # <<>>
    /\ total_counts' = InitTotals(replacements)
    /\ dir_i' = 1
    /\ pc' = "dir_loop"
    /\ UNCHANGED <<caller, dry_run, apply, config, settings, replacements, disk,
                   fnames, walk, cur, text, new_text, counts, pf_i, summary,
                   exit_code, io, visits, disk0>>

\* SkipsDir with the test inverted
SkipsDir_Inverted(rel_dir) == IsDir(rel_dir)

\* if not base.is_dir(): continue
SkipsDir(rel_dir) == ~IsDir(rel_dir)

SkipMissingDir ==
    /\ pc = "dir_loop"
    /\ dir_i <= Len(settings.directories)
    /\ SkipsDir(settings.directories[dir_i])
    /\ dir_i' = dir_i + 1
    /\ UNCHANGED <<pc, caller, dry_run, apply, config, settings, replacements,
                   disk, fnames, walk, cur, text, new_text, counts, pf_i,
                   total_counts, summary, exit_code, io, visits, disk0>>

\* for root, _dirs, files in os.walk(base)
EnterDir ==
    /\ pc = "dir_loop"
    /\ dir_i <= Len(settings.directories)
    /\ ~SkipsDir(settings.directories[dir_i])
    /\ walk' = OsWalk(settings.directories[dir_i])
    /\ pc' = "file_loop"
    /\ UNCHANGED <<caller, dry_run, apply, config, settings, replacements, disk,
                   fnames, dir_i, cur, text, new_text, counts, pf_i, total_counts,
                   summary, exit_code, io, visits, disk0>>

\* ext in settings.include_extensions
Included(fname, exts) == InList(Ext(fname), exts)

\* if ext not in settings.include_extensions: continue
SkipFile ==
    /\ pc = "file_loop"
    /\ walk # <<>>
    /\ ~Included(fnames[Head(walk)], settings.include_extensions)
    /\ walk' = Tail(walk)
    /\ UNCHANGED <<pc, caller, dry_run, apply, config, settings, replacements,
                   disk, fnames, dir_i, cur, text, new_text, counts, pf_i,
                   total_counts, summary, exit_code, io, visits, disk0>>

\* fpath = Path(root) / fname; process_file(fpath, replacements)
VisitFile ==
    /\ pc = "file_loop"
    /\ walk # <<>>
    /\ Included(fnames[Head(walk)], settings.include_extensions)
    /\ cur' = Head(walk)
    /\ walk' = Tail(walk)
    /\ caller' = "main"
    /\ pc' = "pf_read"
    /\ UNCHANGED <<dry_run, apply, config, settings, replacements, disk, fnames,
                   dir_i, text, new_text, counts, pf_i, total_counts, summary,
                   exit_code, io, visits, disk0>>

\* os.walk(base) is exhausted: next rel_dir
DirDone ==
    /\ pc = "file_loop"
    /\ walk = <<>>
    /\ dir_i' = dir_i + 1
    /\ pc' = "dir_loop"
    /\ UNCHANGED <<caller, dry_run, apply, config, settings, replacements, disk,
                   fnames, walk, cur, text, new_text, counts, pf_i, total_counts,
                   summary, exit_code, io, visits, disk0>>

\* any(counts.values())
AnyCounts(cnts) == \E n \in DOMAIN cnts : cnts[n] # 0

\* WritesFile without the test of the counts
WritesFile_AnyChange(ap, cnts, txt, on_disk) == ap /\ txt # on_disk

\* if any(counts.values()): ... if args.apply and new_text != fpath.read_text()
WritesFile(ap, cnts, txt, on_disk) == AnyCounts(cnts) /\ ap /\ txt # on_disk

\* AddCounts assigning the count instead of adding it
AddCounts_Overwrite(total, cnts) ==
    [n \in DOMAIN total |-> IF n \in DOMAIN cnts THEN cnts[n] ELSE total[n]]

\* for name, c in counts.items(): total_counts[name] += c
AddCounts(total, cnts) ==
    [n \in DOMAIN total |-> IF n \in DOMAIN cnts THEN total[n] + cnts[n] ELSE total[n]]

\* lines 113-122: the per-file report, the write, the totals
Report ==
    /\ pc = "report"
    /\ LET reported == AnyCounts(counts)
           reread == reported /\ apply
           wrote == WritesFile(apply, counts, new_text, disk[cur])
       IN  /\ disk' = IF wrote THEN [disk EXCEPT ![cur] = new_text] ELSE disk
           /\ io' = io \o (IF reread THEN <<[op |-> "read", path |-> cur]>> ELSE <<>>)
                       \o (IF wrote THEN <<[op |-> "write", path |-> cur]>> ELSE <<>>)
           /\ visits' = Append(visits, [path |-> cur, text |-> text,
                                        new_text |-> new_text, counts |-> counts,
                                        on_disk |-> disk[cur],
                                        reported |-> reported, wrote |-> wrote])
    /\ total_counts' = AddCounts(total_counts, counts)
    /\ pc' = "file_loop"
    /\ UNCHANGED <<caller, dry_run, apply, config, settings, replacements, fnames,
                   dir_i, walk, cur, text, new_text, counts, pf_i, summary,
                   exit_code, disk0>>

\* print("\nSummary:") ...; main returns, exit status 0
Summary ==
    /\ pc = "dir_loop"
    /\ dir_i > Len(settings.directories)
    /\ summary' = total_counts
    /\ pc' = "exit"
    /\ exit_code' = 0
    /\ UNCHANGED <<caller, dry_run, apply, config, settings, replacements, disk,
                   fnames, dir_i, walk, cur, text, new_text, counts, pf_i,
                   total_counts, io, visits, disk0>>

(***************************************************************************)
(* Inputs: command lines, config documents and file systems.               *)
(***************************************************************************)
SeqsUpTo(S, n) == UNION {[1..k -> S] : k \in 0..n}

\* a table with any subset of the keys of full
Restrict(full, keys) == [k \in keys |-> full[k]]

TextChars == {"a", "b"}
NameChars == {".", "m", "M"}
DirNames == {"d", "d/s", "missing"}

\* [[replacements]] entries of a full run, each key present or not
RuleItems ==
    {Restrict(full, keys) :
        full \in [name : {"x"}, search : {<<"a">>}, replace : {<<"b">>}],
        keys \in SUBSET {"name", "search", "replace"}}

ItemLists == SeqsUpTo(RuleItems, MaxRules)

MojoName == <<"m", ".", "m", "o", "j", "o">>
DotMojoName == <<".", "m", "o", "j", "o">>
TwoDotMojoName == <<"m", ".", "M", ".", "m", "o", "j", "o">>

\* file names: neither empty nor the entries "." and ".."
FileNames ==
    ((SeqsUpTo(NameChars, MaxNameLen) \ {<<>>, <<".">>, <<".", ".">>})
        \cup {MojoName, DotMojoName, TwoDotMojoName})

ExtensionLists ==
    {<< <<"m">> >>, << <<"M">> >>, << <<>> >>, << <<"m">>, <<>> >>}

SettingsTables ==
    {Restrict(full, keys) :
        full \in [include_extensions : ExtensionLists,
                  directories : SeqsUpTo(DirNames, MaxDirs)],
        keys \in SUBSET {"include_extensions", "directories"}}

OneRule == << [name |-> "x", search |-> <<"a">>, replace |-> <<"b">>] >>

\* command lines and directory lists, over fixed files and one rule
CliRuns ==
    {[dry_run |-> dr, apply |-> ap,
      config |-> cfg,
      names |-> [f \in Files |-> MojoName],
      disk |-> [f \in Files |-> IF f = "d/f1" THEN <<"a">> ELSE <<"b", "a">>]] :
        dr \in BOOLEAN, ap \in BOOLEAN,
        cfg \in {[replacements |-> OneRule]}
                \cup {[settings |-> [directories |-> ds], replacements |-> OneRule] :
                        ds \in SeqsUpTo(DirNames, MaxDirs)}}

\* rule lists and file texts; "d/s/f2" is reached through both directories
RuleRuns ==
    {[dry_run |-> ~ap, apply |-> ap,
      config |-> [settings |-> [include_extensions |-> << <<"m">> >>,
                                directories |-> <<"d", "d/s">>],
                  replacements |-> items],
      names |-> [f \in Files |-> <<"M", ".", "m">>],
      disk |-> [f \in Files |-> IF f = "d/f1" THEN <<"a">> ELSE txt]] :
        ap \in BOOLEAN,
        items \in ItemLists,
        txt \in SeqsUpTo(TextChars, MaxTextLen)}

\* file names and extension lists
NameRuns ==
    {[dry_run |-> FALSE, apply |-> TRUE,
      config |-> [settings |-> stbl, replacements |-> OneRule],
      names |-> [f \in Files |-> IF f = "d/f1" THEN nm ELSE <<"m", ".", "m">>],
      disk |-> [f \in Files |-> <<"a">>]] :
        nm \in FileNames,
        stbl \in {t \in SettingsTables :
                    /\ "directories" \in DOMAIN t
                    /\ t["directories"] = <<"d">>}}

Inputs == CliRuns \cup RuleRuns \cup NameRuns

NoSettings == [include_extensions |-> <<>>, directories |-> <<>>]

\* the process starts: main() is entered with the parsed command line
Init ==
    \E inp \in Inputs :
        /\ pc = "parse_args"
        /\ caller = "main"
        /\ dry_run = inp.dry_run
        /\ apply = inp.apply
        /\ config = inp.config
        /\ settings = NoSettings
        /\ replacements = <<>>
        /\ disk = inp.disk
        /\ fnames = inp.names
        /\ dir_i = 0
        /\ walk = <<>>
        /\ cur = "d/f1"
        /\ text = <<>>
        /\ new_text = <<>>
        /\ counts = EmptyCounts
        /\ pf_i = 0
        /\ total_counts = EmptyCounts
        /\ summary = EmptyCounts
        /\ exit_code = -1
        /\ io = <<>>
        /\ visits = <<>>
        /\ disk0 = inp.disk

Next ==
    \/ ParseArgsError
    \/ ParseArgsOk
    \/ LoadConfig
    \/ NoDirectories
    \/ StartLoop
    \/ SkipMissingDir
    \/ EnterDir
    \/ SkipFile
    \/ VisitFile
    \/ DirDone
    \/ PFRead
    \/ PFIter
    \/ PFReturn
    \/ Report
    \/ Summary

Spec == Init /\ [][Next]_vars

(***************************************************************************)
(* process_file called on its own: one file and a rule list.               *)
(***************************************************************************)
\* rules of one entry, with every search and replace string up to MaxPatLen
PatRules ==
    {<< [name |-> "x", search |-> s, replace |-> r] >> :
        s \in SeqsUpTo(TextChars, MaxPatLen), r \in SeqsUpTo(TextChars, MaxPatLen)}

\* two rules of at most one character each way, in either order of names
PairRules ==
    {<< [name |-> n1, search |-> s1, replace |-> r1],
        [name |-> n2, search |-> s2, replace |-> r2] >> :
        n1 \in {"x", "y"}, n2 \in {"x", "y"},
        s1 \in SeqsUpTo(TextChars, 1), r1 \in SeqsUpTo(TextChars, 1),
        s2 \in SeqsUpTo(TextChars, 1), r2 \in SeqsUpTo(TextChars, 1)}

AliasText ==
    <<"a","l","i","a","s"," ","F","o","o"," ","=", " ","I","n","t","\n",
      "a","l","i","a","s"," ","B","a","r"," ","=", " ","I","n","t","\n">>

ComptimeText ==
    <<"c","o","m","p","t","i","m","e"," ","F","o","o"," ","=", " ","I","n","t","\n",
      "c","o","m","p","t","i","m","e"," ","B","a","r"," ","=", " ","I","n","t","\n">>

AliasRule ==
    << [name |-> "x", search |-> <<"a","l","i","a","s"," ">>,
        replace |-> <<"c","o","m","p","t","i","m","e"," ">>] >>

PFInputs ==
    {[text |-> t, items |-> rs] :
        t \in SeqsUpTo(TextChars, MaxPFTextLen), rs \in PatRules}
    \cup {[text |-> t, items |-> rs] :
        t \in SeqsUpTo(TextChars, MaxTextLen), rs \in ItemLists}
    \cup {[text |-> t, items |-> rs] :
        t \in SeqsUpTo(TextChars, MaxTextLen), rs \in PairRules}
    \cup {[text |-> AliasText, items |-> AliasRule]}

InitPF ==
    \E inp \in PFInputs :
        /\ pc = "pf_read"
        /\ caller = "direct"
        /\ dry_run = FALSE
        /\ apply = FALSE
        /\ config = [replacements |-> inp.items]
        /\ settings = NoSettings
        /\ replacements = LoadReplacements([replacements |-> inp.items])
        /\ disk = [f \in Files |-> inp.text]
        /\ fnames = [f \in Files |-> MojoName]
        /\ dir_i = 0
        /\ walk = <<>>
        /\ cur = "d/f1"
        /\ text = <<>>
        /\ new_text = <<>>
        /\ counts = EmptyCounts
        /\ pf_i = 0
        /\ total_counts = EmptyCounts
        /\ summary = EmptyCounts
        /\ exit_code = -1
        /\ io = <<>>
        /\ visits = <<>>
        /\ disk0 = [f \in Files |-> inp.text]

NextPF ==
    \/ PFRead
    \/ PFIter
    \/ PFReturn

SpecPF == InitPF /\ [][NextPF]_vars

(***************************************************************************)
(* Notions the properties are stated in.                                   *)
(***************************************************************************)
\* sub occurs somewhere in s
Contains(s, sub) == \E i \in 1..(Len(s) + 1) : MatchAt(s, sub, i)

\* the largest number of pairwise non-overlapping occurrences of sub in s
OccurrenceCount(s, sub) ==
    LET at == {i \in 1..(Len(s) + 1) : MatchAt(s, sub, i)}
        apart(P) == \A p \in P, q \in P : p < q => p + Len(sub) <= q
        sizes == {Cardinality(P) : P \in {Q \in SUBSET at : apart(Q)}}
    IN  CHOOSE k \in sizes : \A m \in sizes : m <= k

RECURSIVE RefFold(_, _)
\* 'count, then replace all', folded over the rules from the first to the last
RefFold(txt, rules) ==
    IF rules = <<>> THEN [text |-> txt, counts |-> EmptyCounts]
    ELSE LET prev == RefFold(txt, SubSeq(rules, 1, Len(rules) - 1))
             r == rules[Len(rules)]
             c == StrCount(prev.text, r.search)
         IN  [text |-> IF c > 0 THEN StrReplace(prev.text, r.search, r.replace)
                       ELSE prev.text,
              counts |-> [n \in DOMAIN prev.counts \cup {r.name} |->
                            IF n = r.name THEN c ELSE prev.counts[n]]]

RuleNames == {replacements[i].name : i \in 1..Len(replacements)}

Completed == pc = "exit" /\ exit_code = 0

ConfigRead == \E i \in 1..Len(io) : io[i].op = "read_config"

FileTouched == \E i \in 1..Len(io) : io[i].op \in {"read", "write"}

Visited(f) == \E i \in 1..Len(visits) : visits[i].path = f

\* the command line held --dry-run and no --apply
DryRunOnly == dry_run /\ ~apply

(***************************************************************************)
(* C1.  A command line with neither --dry-run nor --apply, and one with    *)
(* both, ends as a usage error (nonzero exit) before the config file is    *)
(* read and before any target file is read or written.                     *)
(***************************************************************************)
C1_ExactlyOneMode ==
    (dry_run = apply) =>
        /\ io = <<>>
        /\ pc \in {"parse_args", "exit"}
        /\ (pc = "exit" => exit_code # 0)

(***************************************************************************)
(* C2.  In a dry-run run the disk at the end is the disk at the start, and *)
(* the summary totals are those an apply run computes from the same        *)
(* starting files.                                                         *)
(***************************************************************************)
RECURSIVE ApplyRunTotals(_, _, _)
\* the totals of an apply run that hands the files of paths, in that order,
\* to the reference fold, writing each changed result back
ApplyRunTotals(paths, dsk, tot) ==
    IF paths = <<>> THEN tot
    ELSE LET r == RefFold(dsk[Head(paths)], replacements)
         IN  ApplyRunTotals(Tail(paths),
                 IF \E n \in DOMAIN r.counts : r.counts[n] # 0
                 THEN [dsk EXCEPT ![Head(paths)] = r.text] ELSE dsk,
                 [n \in DOMAIN tot |-> tot[n] + r.counts[n]])

VisitedPaths == [i \in 1..Len(visits) |-> visits[i].path]

\* the first half of C2
C2_DiskUnchanged == dry_run => disk = disk0

\* the second half of C2, for command lines with --dry-run alone
C2_SameTotalsAsApply ==
    (DryRunOnly /\ Completed) =>
        summary = ApplyRunTotals(VisitedPaths, disk0, [n \in RuleNames |-> 0])

\* C2: a dry-run run leaves the disk as it was and prints the totals of an
\* apply run over the same starting files
C2_DryRun == C2_DiskUnchanged /\ C2_SameTotalsAsApply

(***************************************************************************)
(* C3.  In an apply run a visited file is overwritten with new_text        *)
(* exactly when one of the counts process_file returned for it is nonzero  *)
(* and new_text differs from the text on disk; otherwise it is untouched,  *)
(* and no other step of the run changes the disk.                          *)
(***************************************************************************)
C3_Step ==
    apply =>
        IF pc = "report"
        THEN LET nonzero == \E i \in 1..Len(replacements) :
                                counts[replacements[i].name] # 0
             IN  disk' = IF nonzero /\ new_text # disk[cur]
                         THEN [f \in Files |-> IF f = cur THEN new_text ELSE disk[f]]
                         ELSE disk
        ELSE disk' = disk

\* C3: every step of an apply run writes exactly as stated above
C3_WriteExactlyWhen == [][C3_Step]_vars

\* an apply run wrote a file on its first visit and left it on a later one
C3_Witness ==
    /\ apply
    /\ \E i \in 1..Len(visits), j \in 1..Len(visits) :
        /\ i < j
        /\ visits[i].path = visits[j].path
        /\ visits[i].on_disk # disk[visits[i].path]
        /\ visits[j].on_disk = disk[visits[j].path]
        /\ \E n \in DOMAIN visits[j].counts : visits[j].counts[n] # 0

(***************************************************************************)
(* C4.  process_file applies the rules in config order, each on the text   *)
(* produced by the rules before it, and records every count, zero or not,  *)
(* under the rule's name: after any number of rules, new_text and counts   *)
(* are those of the reference fold of 'count, then replace all' over the   *)
(* rules applied so far; the "alias " -> "comptime " example gives the     *)
(* stated text and {x: 2}.                                                 *)
(***************************************************************************)
C4_FoldInOrder ==
    (pc \in {"pf_loop", "pf_done"}) =>
        LET ref == RefFold(text, SubSeq(replacements, 1, pf_i - 1))
        IN  /\ new_text = ref.text
            /\ counts = ref.counts
            /\ (pc = "pf_done" /\ text = AliasText /\ config.replacements = AliasRule)
                    => (new_text = ComptimeText /\ counts = [n \in {"x"} |-> 2])

\* process_file returned, and its second rule counted occurrences that only
\* the first rule put into the text
C4_Witness ==
    /\ pc = "pf_done"
    /\ Len(replacements) = 2
    /\ replacements[1].name # replacements[2].name
    /\ ~Contains(text, replacements[2].search)
    /\ counts[replacements[2].name] > 0

(***************************************************************************)
(* C5.  A rule whose search string is empty is a no-op: its step records   *)
(* a count of 0 and leaves the text unchanged, whatever its replace is.    *)
(***************************************************************************)
C5_Step ==
    (pc = "pf_loop" /\ pf_i <= Len(replacements)
        /\ replacements[pf_i].search = <<>>)
    => (new_text' = new_text /\ counts'[replacements[pf_i].name] = 0)

\* C5: every step of a rule with an empty search records 0 and keeps the text
C5_EmptySearchNoOp == [][C5_Step]_vars

(***************************************************************************)
(* C6.  For a text that contains a rule's search string and a rule whose   *)
(* replace string does not contain search, the text after the rule's step  *)
(* has no occurrence of search, and the recorded count is the number of    *)
(* non-overlapping occurrences of search in the text before the step.      *)
(***************************************************************************)
C6_Original_Step ==
    (pc = "pf_loop" /\ pf_i <= Len(replacements)
        /\ Contains(new_text, replacements[pf_i].search)
        /\ ~Contains(replacements[pf_i].replace, replacements[pf_i].search))
    => /\ ~Contains(new_text', replacements[pf_i].search)
       /\ counts'[replacements[pf_i].name]
            = OccurrenceCount(new_text, replacements[pf_i].search)

\* C6: every step of a rule whose replace does not contain its search leaves
\* no occurrence of search and records the number of occurrences
C6_Original == [][C6_Original_Step]_vars

\* a non-empty prefix of r is a suffix of s
Border(r, s) ==
    \E k \in 1..Len(r) :
        k <= Len(s) /\ SubSeq(r, 1, k) = SubSeq(s, Len(s) - k + 1, Len(s))

\* no occurrence of search can overlap a copy of replace
CannotOverlap(search, replace) ==
    /\ replace # <<>>
    /\ ~Contains(replace, search)
    /\ ~Contains(search, replace)
    /\ ~Border(replace, search)
    /\ ~Border(search, replace)

(***************************************************************************)
(* C6, amended.  The same, for a rule whose replace string is non-empty    *)
(* and cannot overlap an occurrence of search: replace does not contain    *)
(* search, search does not contain replace, no non-empty prefix of replace *)
(* is a suffix of search and no non-empty suffix of replace is a prefix of *)
(* search.                                                                 *)
(***************************************************************************)
C6_Amended_Step ==
    (pc = "pf_loop" /\ pf_i <= Len(replacements)
        /\ Contains(new_text, replacements[pf_i].search)
        /\ CannotOverlap(replacements[pf_i].search, replacements[pf_i].replace))
    => /\ ~Contains(new_text', replacements[pf_i].search)
       /\ counts'[replacements[pf_i].name]
            = OccurrenceCount(new_text, replacements[pf_i].search)

\* C6, amended: the same for every step of a rule whose replace cannot
\* overlap an occurrence of search
C6_Amended == [][C6_Amended_Step]_vars

\* process_file returned after one rule of that kind replaced two occurrences
C6_Witness ==
    /\ pc = "pf_done"
    /\ Len(replacements) = 1
    /\ CannotOverlap(replacements[1].search, replacements[1].replace)
    /\ Contains(text, replacements[1].search)
    /\ counts[replacements[1].name] = 2
    /\ new_text # text

(***************************************************************************)
(* C7.  At the end of a completed run the summary has one entry for every  *)
(* rule name of the config, zero totals included, and each total is the    *)
(* sum, over every visit of every processed file, of the count             *)
(* process_file returned under that name.                                  *)
(***************************************************************************)
RECURSIVE SumVisits(_, _)
SumVisits(n, k) ==
    IF k = 0 THEN 0 ELSE visits[k].counts[n] + SumVisits(n, k - 1)

\* C7: the summary of a completed run has every rule name, and each total is
\* the sum of the per-visit counts
C7_SummaryTotals ==
    Completed =>
        /\ DOMAIN summary = {Get(config.replacements[i], "name", "unnamed") :
                                i \in 1..Len(config.replacements)}
        /\ \A n \in DOMAIN summary : summary[n] = SumVisits(n, Len(visits))

\* a completed run that visited a file twice, with a total made of both
\* visits and another total of zero
C7_Witness ==
    /\ Completed
    /\ \E i \in 1..Len(visits), j \in 1..Len(visits) :
        i < j /\ visits[i].path = visits[j].path
    /\ \E n \in DOMAIN summary : summary[n] = 0
    /\ \E n \in DOMAIN summary :
        /\ summary[n] > 0
        /\ \A k \in 1..Len(visits) : visits[k].counts[n] > 0

(***************************************************************************)
(* C8.  A configured directory that does not exist is skipped without      *)
(* error: once the directory list is known to be non-empty the run never   *)
(* stops before the summary, it exits with status 0, and it has then       *)
(* processed the included files of every existing configured directory,    *)
(* in order; when every configured directory is missing no file was read   *)
(* or written and every total of the summary is 0.                         *)
(***************************************************************************)
ExistingDirs == {"d", "d/s"}

RECURSIVE ExpectedVisits(_)
\* the files a run over the directory list dirs hands to process_file
ExpectedVisits(dirs) ==
    IF dirs = <<>> THEN <<>>
    ELSE (IF Head(dirs) \in ExistingDirs
          THEN SelectSeq(OsWalk(Head(dirs)),
                         LAMBDA f : Included(fnames[f], settings.include_extensions))
          ELSE <<>>)
         \o ExpectedVisits(Tail(dirs))

\* C8: a missing configured directory is skipped, the run goes on and exits 0
C8_MissingDirSkipped ==
    /\ (pc \in {"dir_loop", "file_loop", "pf_read", "pf_loop", "report"})
            => ENABLED Next
    /\ (pc = "exit" /\ settings.directories # <<>>) =>
        /\ exit_code = 0
        /\ VisitedPaths = ExpectedVisits(settings.directories)
        /\ (\A i \in 1..Len(settings.directories) :
                settings.directories[i] \notin ExistingDirs)
            => (~FileTouched /\ \A n \in DOMAIN summary : summary[n] = 0)

\* a completed run whose first directory is missing and whose second exists
\* and was processed
C8_Witness ==
    /\ Completed
    /\ Len(settings.directories) = 2
    /\ settings.directories[1] \notin ExistingDirs
    /\ settings.directories[2] \in ExistingDirs
    /\ visits # <<>>

(***************************************************************************)
(* C9.  Under an existing configured directory a file is processed if and  *)
(* only if the text after the last '.' of its name is a member of          *)
(* include_extensions, also when its only '.' is its first character.      *)
(***************************************************************************)
\* the text after the last '.' of a name (empty when it has no '.')
AfterLastDot(fname) ==
    IF RFind(fname, ".") = 0 THEN <<>>
    ELSE SubSeq(fname, RFind(fname, ".") + 1, Len(fname))

\* the files under the existing configured directories
Enumerated ==
    {f \in Files : \E i \in 1..Len(settings.directories) :
        /\ settings.directories[i] \in ExistingDirs
        /\ InList(f, OsWalk(settings.directories[i]))}

\* C9: processed if and only if the text after the last '.' is included
C9_Original ==
    Completed =>
        \A f \in Enumerated :
            Visited(f) <=> InList(AfterLastDot(fnames[f]), settings.include_extensions)

\* some character other than '.' comes before the last '.' of the name
DotAfterStem(fname) ==
    \E i \in 1..Len(fname) : fname[i] # "." /\ i < RFind(fname, ".")

\* the name has no '.', or its only '.' is its first character
NoDotOrLeadingDotOnly(fname) == RFind(fname, ".") \in {0, 1}

(***************************************************************************)
(* C9, amended.  A file whose name has a character other than '.' before   *)
(* its last '.' is processed if and only if the text after that '.' is a   *)
(* member of include_extensions; a file whose name has no '.', or whose    *)
(* only '.' is its first character (".mojo"), has the empty extension and  *)
(* is processed if and only if the empty string is a member of             *)
(* include_extensions.                                                     *)
(***************************************************************************)
C9_Amended ==
    Completed =>
        \A f \in Enumerated :
            /\ DotAfterStem(fnames[f]) =>
                (Visited(f) <=>
                    InList(AfterLastDot(fnames[f]), settings.include_extensions))
            /\ NoDotOrLeadingDotOnly(fnames[f]) =>
                (Visited(f) <=> InList(<<>>, settings.include_extensions))

\* a completed run that left out a file named '.' + an included extension
C9_Witness ==
    /\ Completed
    /\ \E f \in Enumerated :
        /\ RFind(fnames[f], ".") = 1
        /\ InList(AfterLastDot(fnames[f]), settings.include_extensions)
        /\ ~Visited(f)
    /\ \E f \in Enumerated : DotAfterStem(fnames[f]) /\ Visited(f)

(***************************************************************************)
(* C10.  In an apply run every visited file whose process_file output      *)
(* differs from its text on disk is overwritten with that output and       *)
(* reported, also when rules share a name.                                 *)
(***************************************************************************)
C10_NoDroppedReplacement ==
    (apply /\ visits # <<>>) =>
        LET v == visits[Len(visits)]
        IN  (v.new_text # v.on_disk) =>
                (disk[v.path] = v.new_text /\ v.reported)

====
